---- MODULE Spec2Model ----
(***************************************************************************)
(* vektlogg: the weights table of src/lib/db.js (SQLite through            *)
(* better-sqlite3) and the request handlers of                             *)
(* src/routes/api/weights/+server.js.                                      *)
(*                                                                         *)
(* A JavaScript value is a record [kind, n, s]: kind is the value's sort,  *)
(* n its integer part (numbers) and s its characters (strings).  A string  *)
(* is a sequence of character codes, compared as SQLite's BINARY collation *)
(* compares TEXT (byte by byte, a proper prefix first).                    *)
(***************************************************************************)
EXTENDS Integers, Sequences, FiniteSets, TLC

VARIABLES
    weights,          \* the rows of table weights
    sqlite_sequence,  \* AUTOINCREMENT: the largest rowid the table ever held
    clock,            \* CURRENT_TIMESTAMP
    resp,             \* the response of the last request that was answered
    calls,            \* per client with a POST in flight: its handler's position, body and response
    order             \* the clients whose POST handlers ran to completion, in order

vars == <<weights, sqlite_sequence, clock, resp, calls, order>>

\* Bounds of the model.
MaxId == 2
MaxWeight == 1
MaxClock == 1

----------------------------------------------------------------------------
\* JavaScript values, as request.json() can produce them (and NaN, which it cannot).

Undefined == [kind |-> "undefined", n |-> 0, s |-> <<>>]
Null == [kind |-> "null", n |-> 0, s |-> <<>>]
True == [kind |-> "true", n |-> 0, s |-> <<>>]
False == [kind |-> "false", n |-> 0, s |-> <<>>]
Num(i) == [kind |-> "int", n |-> i, s |-> <<>>]
\* i + 1/2
Frac(i) == [kind |-> "frac", n |-> i, s |-> <<>>]
NaN == [kind |-> "nan", n |-> 0, s |-> <<>>]
\* JSON.parse("1e999")
Infinity == [kind |-> "inf", n |-> 0, s |-> <<>>]
Str(chars) == [kind |-> "string", n |-> 0, s |-> chars]

\* typeof v
TypeOf(v) ==
    CASE v.kind \in {"int", "frac", "nan", "inf"} -> "number"
      [] v.kind = "string" -> "string"
      [] v.kind \in {"true", "false"} -> "boolean"
      [] v.kind = "undefined" -> "undefined"
      [] OTHER -> "object"

\* isNaN(v), for v a number (the handlers call it on nothing else)
IsNaN(v) == v.kind = "nan"

\* !v
Falsy(v) ==
    \/ v.kind \in {"undefined", "null", "false", "nan"}
    \/ v.kind = "int" /\ v.n = 0
    \/ v.kind = "string" /\ v.s = <<>>

\* v taken as a condition: if (v)
Truthy(v) == ~Falsy(v)

\* v === true
StrictTrue(v) == v.kind = "true"

\* better-sqlite3 binds numbers, strings and null; it throws a TypeError on
\* booleans and plain objects.
Bindable(v) == v.kind \in {"int", "frac", "nan", "inf", "string", "null", "undefined"}

----------------------------------------------------------------------------
\* The request bodies the model sends.

DateStrs == {<<1>>, <<1, 2>>, <<2>>}

WeightInputs ==
    {Undefined, Str(<<1>>), Infinity} \cup {Num(i) : i \in 0 .. MaxWeight}

DateInputs == {Undefined, Str(<<>>), True} \cup {Str(d) : d \in DateStrs}

IdInputs ==
    {Undefined, Str(<<1>>), Frac(1)} \cup {Num(i) : i \in 1 .. MaxId}

DeleteAllInputs == {Undefined, True, False, Str(<<1>>), Num(1)}

\* json: "object" is a JSON object, "null" the JSON value null (destructuring
\* it throws), "invalid" a body request.json() rejects.
BodyKinds == {"object", "null", "invalid"}

PostBodies ==
    {[json |-> "object", weight |-> w, date |-> d] : w \in WeightInputs, d \in DateInputs}
    \cup {[json |-> j, weight |-> Undefined, date |-> Undefined] : j \in BodyKinds \ {"object"}}

PutBodies ==
    {[json |-> "object", id |-> i, weight |-> w] : i \in IdInputs, w \in WeightInputs}
    \cup {[json |-> j, id |-> Undefined, weight |-> Undefined] : j \in BodyKinds \ {"object"}}

DeleteBodies ==
    {[json |-> "object", id |-> i, deleteAll |-> a] : i \in IdInputs, a \in DeleteAllInputs}
    \cup {[json |-> j, id |-> Undefined, deleteAll |-> Undefined] : j \in BodyKinds \ {"object"}}

----------------------------------------------------------------------------
\* SQLite.

\* TEXT under the BINARY collation: a < b
RECURSIVE TextLess(_, _)
TextLess(a, b) ==
    IF a = <<>> THEN b # <<>>
    ELSE IF b = <<>> THEN FALSE
    ELSE IF Head(a) # Head(b) THEN Head(a) < Head(b)
    ELSE TextLess(Tail(a), Tail(b))

\* WHERE id = ?: an INTEGER rowid equals a bound double only if it is that integer
IdEquals(rowid, v) == v.kind = "int" /\ v.n = rowid

\* ORDER BY id ASC: the order of insertion.
RECURSIVE OrderById(_)
OrderById(rows) ==
    IF rows = {} THEN <<>>
    ELSE LET first == CHOOSE r \in rows : \A q \in rows : r.id <= q.id
         IN  <<first>> \o OrderById(rows \ {first})

\* ORDER BY date ASC, over rows of distinct dates
RECURSIVE OrderByDate(_)
OrderByDate(rows) ==
    IF rows = {} THEN <<>>
    ELSE LET first == CHOOSE r \in rows : \A q \in rows \ {r} : ~TextLess(q.date, r.date)
         IN  <<first>> \o OrderByDate(rows \ {first})

\* ORDER BY id DESC: the entry inserted last first.
RECURSIVE OrderByIdDesc(_)
OrderByIdDesc(rows) ==
    IF rows = {} THEN <<>>
    ELSE LET first == CHOOSE r \in rows : \A q \in rows : q.id <= r.id
         IN  <<first>> \o OrderByIdDesc(rows \ {first})

\* ORDER BY date DESC, over rows of distinct dates
RECURSIVE OrderByDateDesc(_)
OrderByDateDesc(rows) ==
    IF rows = {} THEN <<>>
    ELSE LET first == CHOOSE r \in rows : \A q \in rows \ {r} : ~TextLess(r.date, q.date)
         IN  <<first>> \o OrderByDateDesc(rows \ {first})

\* LIMIT 1
Limit1(seq) == IF seq = <<>> THEN <<>> ELSE <<seq[1]>>

\* stmt.get(): the first row of the result, undefined when there is none
Get(seq) == IF seq = <<>> THEN Undefined ELSE seq[1]

\* SELECT id, weight, date
Project(seq) == [i \in DOMAIN seq |-> [id |-> seq[i].id, weight |-> seq[i].weight, date |-> seq[i].date]]

\* InsertRow with column date declared without UNIQUE.
InsertRowNoUnique(rows, seqno, now, weight, date) ==
    IF ~Bindable(weight) \/ ~Bindable(date)
    THEN [threw |-> "TypeError", rows |-> rows, seqno |-> seqno, lastInsertRowid |-> 0]
    ELSE IF weight.kind \in {"nan", "null", "undefined"} \/ date.kind \in {"null", "undefined"}
    THEN [threw |-> "SQLITE_CONSTRAINT_NOTNULL", rows |-> rows, seqno |-> seqno, lastInsertRowid |-> 0]
    ELSE [threw |-> "",
          rows |-> rows \cup {[id |-> seqno + 1, weight |-> weight, date |-> date.s, created_at |-> now]},
          seqno |-> seqno + 1,
          lastInsertRowid |-> seqno + 1]

\* The largest rowid in the table, 0 for the empty table.
MaxRowid(rows) ==
    IF rows = {} THEN 0 ELSE CHOOSE i \in {r.id : r \in rows} : \A r \in rows : r.id <= i

\* InsertRow with id declared INTEGER PRIMARY KEY without AUTOINCREMENT: the new
\* rowid is one more than the largest in the table now.
InsertRowMaxRowid(rows, seqno, now, weight, date) ==
    IF ~Bindable(weight) \/ ~Bindable(date)
    THEN [threw |-> "TypeError", rows |-> rows, seqno |-> seqno, lastInsertRowid |-> 0]
    ELSE IF weight.kind \in {"nan", "null", "undefined"} \/ date.kind \in {"null", "undefined"}
    THEN [threw |-> "SQLITE_CONSTRAINT_NOTNULL", rows |-> rows, seqno |-> seqno, lastInsertRowid |-> 0]
    ELSE IF \E r \in rows : r.date = date.s
    THEN [threw |-> "SQLITE_CONSTRAINT_UNIQUE", rows |-> rows, seqno |-> seqno, lastInsertRowid |-> 0]
    ELSE [threw |-> "",
          rows |-> rows \cup {[id |-> MaxRowid(rows) + 1, weight |-> weight, date |-> date.s, created_at |-> now]},
          seqno |-> IF MaxRowid(rows) + 1 > seqno THEN MaxRowid(rows) + 1 ELSE seqno,
          lastInsertRowid |-> MaxRowid(rows) + 1]

\* InsertRow reporting the rowid of the insert before this one.
InsertRowStaleRowid(rows, seqno, now, weight, date) ==
    IF ~Bindable(weight) \/ ~Bindable(date)
    THEN [threw |-> "TypeError", rows |-> rows, seqno |-> seqno, lastInsertRowid |-> 0]
    ELSE IF weight.kind \in {"nan", "null", "undefined"} \/ date.kind \in {"null", "undefined"}
    THEN [threw |-> "SQLITE_CONSTRAINT_NOTNULL", rows |-> rows, seqno |-> seqno, lastInsertRowid |-> 0]
    ELSE IF \E r \in rows : r.date = date.s
    THEN [threw |-> "SQLITE_CONSTRAINT_UNIQUE", rows |-> rows, seqno |-> seqno, lastInsertRowid |-> 0]
    ELSE [threw |-> "",
          rows |-> rows \cup {[id |-> seqno + 1, weight |-> weight, date |-> date.s, created_at |-> now]},
          seqno |-> seqno + 1,
          lastInsertRowid |-> seqno]

\* INSERT INTO weights (weight, date) VALUES (?, ?).  threw is "" or the error code.
\* A NaN is bound as NULL.  The new rowid is one more than the largest the table
\* ever held (AUTOINCREMENT); created_at defaults to CURRENT_TIMESTAMP.  Dates are
\* strings here: DateInputs holds no number, whose TEXT form is not modelled.
InsertRow(rows, seqno, now, weight, date) ==
    IF ~Bindable(weight) \/ ~Bindable(date)
    THEN [threw |-> "TypeError", rows |-> rows, seqno |-> seqno, lastInsertRowid |-> 0]
    ELSE IF weight.kind \in {"nan", "null", "undefined"} \/ date.kind \in {"null", "undefined"}
    THEN [threw |-> "SQLITE_CONSTRAINT_NOTNULL", rows |-> rows, seqno |-> seqno, lastInsertRowid |-> 0]
    ELSE IF \E r \in rows : r.date = date.s
    THEN [threw |-> "SQLITE_CONSTRAINT_UNIQUE", rows |-> rows, seqno |-> seqno, lastInsertRowid |-> 0]
    ELSE [threw |-> "",
          rows |-> rows \cup {[id |-> seqno + 1, weight |-> weight, date |-> date.s, created_at |-> now]},
          seqno |-> seqno + 1,
          lastInsertRowid |-> seqno + 1]

\* UPDATE weights SET weight = ? WHERE date = ?
UpdateByDate(rows, weight, date) ==
    [rows |-> {IF r.date = date.s THEN [r EXCEPT !.weight = weight] ELSE r : r \in rows},
     changes |-> Cardinality({r \in rows : r.date = date.s})]

\* UpdateById counting the rows whose value changed, not the rows matched.
UpdateByIdChanged(rows, weight, id) ==
    [rows |-> {IF IdEquals(r.id, id) THEN [r EXCEPT !.weight = weight] ELSE r : r \in rows},
     changes |-> Cardinality({r \in rows : IdEquals(r.id, id) /\ r.weight # weight})]

\* UPDATE weights SET weight = ? WHERE id = ?
UpdateById(rows, weight, id) ==
    [rows |-> {IF IdEquals(r.id, id) THEN [r EXCEPT !.weight = weight] ELSE r : r \in rows},
     changes |-> Cardinality({r \in rows : IdEquals(r.id, id)})]

\* DELETE FROM weights WHERE id <= ?
DeleteByIdOrLess(rows, id) ==
    [rows |-> {r \in rows : ~(id.kind = "int" /\ r.id <= id.n)},
     changes |-> Cardinality({r \in rows : id.kind = "int" /\ r.id <= id.n})]

\* DELETE FROM weights WHERE id = ?
DeleteById(rows, id) ==
    [rows |-> {r \in rows : ~IdEquals(r.id, id)},
     changes |-> Cardinality({r \in rows : IdEquals(r.id, id)})]

\* DELETE FROM weights
DeleteFrom(rows) == [rows |-> {}, changes |-> Cardinality(rows)]

----------------------------------------------------------------------------
\* src/lib/db.js.  Each function returns the table it leaves and what it returns
\* (threw # "" when it throws).

NoResult == [success |-> FALSE, id |-> 0, updated |-> FALSE, changes |-> -1]

\* addWeight as INSERT OR IGNORE: a conflict leaves the stored weight.
addWeightKeepFirst(rows, seqno, now, weight, date) ==
    LET ins == InsertRow(rows, seqno, now, weight, date)
    IN  IF ins.threw = ""
        THEN [threw |-> "", rows |-> ins.rows, seqno |-> ins.seqno,
              result |-> [NoResult EXCEPT !.success = TRUE, !.id = ins.lastInsertRowid]]
        ELSE IF ins.threw = "SQLITE_CONSTRAINT_UNIQUE"
        THEN [threw |-> "", rows |-> rows, seqno |-> seqno,
              result |-> [NoResult EXCEPT !.success = TRUE, !.updated = TRUE]]
        ELSE [threw |-> ins.threw, rows |-> rows, seqno |-> seqno, result |-> NoResult]

\* addWeight without its catch: the conflict is thrown to the handler.
addWeightNoCatch(rows, seqno, now, weight, date) ==
    LET ins == InsertRow(rows, seqno, now, weight, date)
    IN  IF ins.threw = ""
        THEN [threw |-> "", rows |-> ins.rows, seqno |-> ins.seqno,
              result |-> [NoResult EXCEPT !.success = TRUE, !.id = ins.lastInsertRowid]]
        ELSE [threw |-> ins.threw, rows |-> rows, seqno |-> seqno, result |-> NoResult]

\* addWeight as INSERT OR REPLACE: a conflict deletes the row and inserts a new one.
addWeightReplace(rows, seqno, now, weight, date) ==
    LET ins == InsertRow(rows, seqno, now, weight, date)
        rep == InsertRow({r \in rows : r.date # date.s}, seqno, now, weight, date)
    IN  IF ins.threw = ""
        THEN [threw |-> "", rows |-> ins.rows, seqno |-> ins.seqno,
              result |-> [NoResult EXCEPT !.success = TRUE, !.id = ins.lastInsertRowid]]
        ELSE IF ins.threw = "SQLITE_CONSTRAINT_UNIQUE"
        THEN [threw |-> "", rows |-> rep.rows, seqno |-> rep.seqno,
              result |-> [NoResult EXCEPT !.success = TRUE, !.updated = TRUE]]
        ELSE [threw |-> ins.threw, rows |-> rows, seqno |-> seqno, result |-> NoResult]

addWeight(rows, seqno, now, weight, date) ==
    LET ins == InsertRow(rows, seqno, now, weight, date)
        upd == UpdateByDate(rows, weight, date)
    IN  IF ins.threw = ""
        THEN [threw |-> "", rows |-> ins.rows, seqno |-> ins.seqno,
              result |-> [NoResult EXCEPT !.success = TRUE, !.id = ins.lastInsertRowid]]
        ELSE IF ins.threw = "SQLITE_CONSTRAINT_UNIQUE"
        THEN [threw |-> "", rows |-> upd.rows, seqno |-> seqno,
              result |-> [NoResult EXCEPT !.success = TRUE, !.updated = TRUE]]
        ELSE [threw |-> ins.threw, rows |-> rows, seqno |-> seqno, result |-> NoResult]

getAllWeights(rows) == Project(OrderByDate(rows))

\* SELECT * FROM weights ORDER BY date DESC LIMIT 1
getLatestWeight(rows) == Get(Limit1(OrderByDateDesc(rows)))

updateWeight(rows, id, weight) ==
    LET upd == UpdateById(rows, weight, id)
    IN  [rows |-> upd.rows, result |-> [NoResult EXCEPT !.success = TRUE, !.changes = upd.changes]]

deleteWeight(rows, id) ==
    LET del == DeleteById(rows, id)
    IN  [rows |-> del.rows, result |-> [NoResult EXCEPT !.success = TRUE, !.changes = del.changes]]

deleteAllWeights(rows) ==
    LET del == DeleteFrom(rows)
    IN  [rows |-> del.rows, result |-> [NoResult EXCEPT !.success = TRUE, !.changes = del.changes]]

----------------------------------------------------------------------------
\* src/routes/api/weights/+server.js.  A response: id = 0, deleted = -1 and
\* error = "" stand for a field the JSON body does not have.

NoResp ==
    [method |-> "", status |-> 0, success |-> FALSE, id |-> 0, updated |-> FALSE,
     deleted |-> -1, error |-> "", list |-> <<>>]

Json(method, status) == [NoResp EXCEPT !.method = method, !.status = status]

Error(method, status, text) == [Json(method, status) EXCEPT !.error = text]

\* What a handler leaves: the table, the AUTOINCREMENT counter and the response;
\* db lists the db.js functions it called on the way.
Outcome(rows, seqno, response) == [rows |-> rows, seqno |-> seqno, resp |-> response, db |-> <<>>]

\* The outcome of a handler that called db.js function fn.
Called(fn, out) == [out EXCEPT !.db = Append(@, fn)]

GETHandler(rows, seqno) ==
    Called("getAllWeights", Outcome(rows, seqno, [Json("GET", 200) EXCEPT !.list = getAllWeights(rows)]))

\* POSTHandler storing before it looks at the date.
POSTHandlerStoreFirst(rows, seqno, now, body) ==
    LET added == addWeight(rows, seqno, now, body.weight, body.date)
    IN  IF body.json # "object"
        THEN Outcome(rows, seqno, Error("POST", 500, "Failed to add weight"))
        ELSE IF TypeOf(body.weight) # "number" \/ IsNaN(body.weight)
        THEN Outcome(rows, seqno, Error("POST", 400, "Weight must be a valid number"))
        ELSE IF added.threw # ""
        THEN Called("addWeight", Outcome(rows, seqno, Error("POST", 500, "Failed to add weight")))
        ELSE IF Falsy(body.date)
        THEN Called("addWeight", Outcome(added.rows, added.seqno, Error("POST", 400, "Date is required")))
        ELSE Called("addWeight",
                    Outcome(added.rows, added.seqno,
                            [Json("POST", 200) EXCEPT !.success = TRUE,
                                                      !.id = added.result.id,
                                                      !.updated = added.result.updated]))

POSTHandler(rows, seqno, now, body) ==
    LET added == addWeight(rows, seqno, now, body.weight, body.date)
    IN  IF body.json # "object"
        THEN Outcome(rows, seqno, Error("POST", 500, "Failed to add weight"))
        ELSE IF TypeOf(body.weight) # "number" \/ IsNaN(body.weight)
        THEN Outcome(rows, seqno, Error("POST", 400, "Weight must be a valid number"))
        ELSE IF Falsy(body.date)
        THEN Outcome(rows, seqno, Error("POST", 400, "Date is required"))
        ELSE IF added.threw # ""
        THEN Called("addWeight", Outcome(rows, seqno, Error("POST", 500, "Failed to add weight")))
        ELSE Called("addWeight",
                    Outcome(added.rows, added.seqno,
                            [Json("POST", 200) EXCEPT !.success = TRUE,
                                                      !.id = added.result.id,
                                                      !.updated = added.result.updated]))

PUTHandler(rows, seqno, body) ==
    LET updated == updateWeight(rows, body.id, body.weight)
    IN  IF body.json # "object"
        THEN Outcome(rows, seqno, Error("PUT", 500, "Failed to update weight"))
        ELSE IF TypeOf(body.id) # "number" \/ IsNaN(body.id)
        THEN Outcome(rows, seqno, Error("PUT", 400, "ID must be a valid number"))
        ELSE IF TypeOf(body.weight) # "number" \/ IsNaN(body.weight)
        THEN Outcome(rows, seqno, Error("PUT", 400, "Weight must be a valid number"))
        ELSE IF updated.result.changes = 0
        THEN Called("updateWeight", Outcome(updated.rows, seqno, Error("PUT", 404, "Entry not found")))
        ELSE Called("updateWeight", Outcome(updated.rows, seqno, [Json("PUT", 200) EXCEPT !.success = TRUE]))

\* DELETEHandler with the changes === 0 test applied to the bulk clear too.
DELETEHandlerNotFound(rows, seqno, body) ==
    LET all == deleteAllWeights(rows)
        one == deleteWeight(rows, body.id)
    IN  IF body.json # "object"
        THEN Outcome(rows, seqno, Error("DELETE", 500, "Failed to delete weight"))
        ELSE IF StrictTrue(body.deleteAll) /\ all.result.changes = 0
        THEN Called("deleteAllWeights", Outcome(all.rows, seqno, Error("DELETE", 404, "Entry not found")))
        ELSE IF StrictTrue(body.deleteAll)
        THEN Called("deleteAllWeights",
                    Outcome(all.rows, seqno,
                            [Json("DELETE", 200) EXCEPT !.success = TRUE, !.deleted = all.result.changes]))
        ELSE IF TypeOf(body.id) # "number" \/ IsNaN(body.id)
        THEN Outcome(rows, seqno, Error("DELETE", 400, "ID must be a valid number"))
        ELSE IF one.result.changes = 0
        THEN Called("deleteWeight", Outcome(one.rows, seqno, Error("DELETE", 404, "Entry not found")))
        ELSE Called("deleteWeight", Outcome(one.rows, seqno, [Json("DELETE", 200) EXCEPT !.success = TRUE]))

DELETEHandler(rows, seqno, body) ==
    LET all == deleteAllWeights(rows)
        one == deleteWeight(rows, body.id)
    IN  IF body.json # "object"
        THEN Outcome(rows, seqno, Error("DELETE", 500, "Failed to delete weight"))
        ELSE IF StrictTrue(body.deleteAll)
        THEN Called("deleteAllWeights",
                    Outcome(all.rows, seqno,
                            [Json("DELETE", 200) EXCEPT !.success = TRUE, !.deleted = all.result.changes]))
        ELSE IF TypeOf(body.id) # "number" \/ IsNaN(body.id)
        THEN Outcome(rows, seqno, Error("DELETE", 400, "ID must be a valid number"))
        ELSE IF one.result.changes = 0
        THEN Called("deleteWeight", Outcome(one.rows, seqno, Error("DELETE", 404, "Entry not found")))
        ELSE Called("deleteWeight", Outcome(one.rows, seqno, [Json("DELETE", 200) EXCEPT !.success = TRUE]))

----------------------------------------------------------------------------
\* The state machine.  A handler awaits request.json() before it reads or writes
\* anything and then runs to completion on the one JavaScript thread, so a request
\* is one step, taken when its body has been parsed.

Clients == {"a", "b"}

Init ==
    /\ weights = {}
    /\ sqlite_sequence = 0
    /\ clock = 0
    /\ resp = NoResp
    /\ calls = <<>>
    /\ order = <<>>

Answer(out) ==
    /\ weights' = out.rows
    /\ sqlite_sequence' = out.seqno
    /\ resp' = out.resp

\* The AUTOINCREMENT counter is capped at MaxId.
WithinBounds(out) == out.seqno <= MaxId

GET ==
    /\ Answer(GETHandler(weights, sqlite_sequence))
    /\ UNCHANGED <<clock, calls, order>>

POST(body) ==
    /\ WithinBounds(POSTHandler(weights, sqlite_sequence, clock, body))
    /\ Answer(POSTHandler(weights, sqlite_sequence, clock, body))
    /\ UNCHANGED <<clock, calls, order>>

PUT(body) ==
    /\ Answer(PUTHandler(weights, sqlite_sequence, body))
    /\ UNCHANGED <<clock, calls, order>>

DELETE(body) ==
    /\ Answer(DELETEHandler(weights, sqlite_sequence, body))
    /\ UNCHANGED <<clock, calls, order>>

Tick ==
    /\ clock < MaxClock
    /\ clock' = clock + 1
    /\ UNCHANGED <<weights, sqlite_sequence, resp, calls, order>>

Next ==
    \/ GET
    \/ \E body \in PostBodies : POST(body)
    \/ \E body \in PutBodies : PUT(body)
    \/ \E body \in DeleteBodies : DELETE(body)
    \/ Tick

Spec == Init /\ [][Next]_vars

----------------------------------------------------------------------------
\* Two POST requests in flight at once on a new store: both handlers have been
\* called and are suspended at "await request.json()" (+server.js line 25); the
\* event loop resumes them one at a time, in either order, and each then runs
\* lines 27-41 to completion.

Awaiting(body) == [pc |-> "awaiting", body |-> body, resp |-> NoResp]

InitRace ==
    /\ weights = {}
    /\ sqlite_sequence = 0
    /\ clock = 0
    /\ resp = NoResp
    /\ calls \in [Clients -> {Awaiting(b) : b \in PostBodies}]
    /\ order = <<>>

Resume(c) ==
    /\ calls[c].pc = "awaiting"
    /\ WithinBounds(POSTHandler(weights, sqlite_sequence, clock, calls[c].body))
    /\ Answer(POSTHandler(weights, sqlite_sequence, clock, calls[c].body))
    /\ calls' = [calls EXCEPT ![c].pc = "done", ![c].resp = resp']
    /\ order' = Append(order, c)
    /\ UNCHANGED clock

NextRace == \E c \in Clients : Resume(c)

SpecRace == InitRace /\ [][NextRace]_vars

----------------------------------------------------------------------------
\* Properties.

\* A request body the POST handler passes on to addWeight with a date SQLite
\* stores: a JSON object with a number for weight and a non-empty string for date.
WellFormedPost(body) ==
    /\ body.json = "object"
    /\ TypeOf(body.weight) = "number" /\ ~IsNaN(body.weight)
    /\ body.date.kind = "string" /\ body.date.s # <<>>

RowsOn(rows, text) == {r \in rows : r.date = text}

\* C1: in every reachable state the table holds at most one entry per date,
\* whatever creates, updates and deletes came before.
C1_OneEntryPerDate ==
    \A r \in weights : \A q \in weights : r.date = q.date => r = q

\* A second write for a date was answered as an update while the table holds
\* two entries.
C1_Witness ==
    /\ resp.method = "POST" /\ resp.status = 200 /\ resp.updated
    /\ Cardinality(weights) = 2

\* C2: two POSTs for the same new date, both suspended at their await: when both
\* have run, one entry holds that date, exactly one response carries an id (the
\* insert) and the other says updated, and the stored weight is that of the
\* request that ran second.
C2_ConcurrentCreate ==
    LET first == calls[order[1]]
        second == calls[order[2]]
    IN  (/\ Len(order) = 2
         /\ WellFormedPost(first.body) /\ WellFormedPost(second.body)
         /\ first.body.date = second.body.date)
        => /\ Cardinality(RowsOn(weights, first.body.date.s)) = 1
           /\ first.resp.status = 200 /\ second.resp.status = 200
           /\ first.resp.id # 0 /\ ~first.resp.updated
           /\ second.resp.id = 0 /\ second.resp.updated
           /\ \A r \in RowsOn(weights, first.body.date.s) : r.weight = second.body.weight

\* Both requests have run, for the same date with different weights.
C2_Witness ==
    /\ Len(order) = 2
    /\ WellFormedPost(calls["a"].body) /\ WellFormedPost(calls["b"].body)
    /\ calls["a"].body.date = calls["b"].body.date
    /\ calls["a"].body.weight # calls["b"].body.weight
    /\ calls["a"].resp.updated

\* C3: addWeight(w, d) on a date no entry has adds exactly one entry and reports
\* an insert; on a date an entry has it leaves the count, sets that entry's
\* weight to w and is answered 200 {success, updated}, never as an error.
\* Stated of the handler's outcome in every reachable state, for every body.
C3_UpsertCounts ==
    \A body \in PostBodies :
        WellFormedPost(body) =>
            LET out == POSTHandler(weights, sqlite_sequence, clock, body)
                had == RowsOn(weights, body.date.s)
                has == RowsOn(out.rows, body.date.s)
            IN  /\ out.resp.status = 200 /\ out.resp.success /\ out.resp.error = ""
                /\ \A r \in has : r.weight = body.weight
                /\ had = {} =>
                      /\ Cardinality(out.rows) = Cardinality(weights) + 1
                      /\ out.resp.id # 0 /\ ~out.resp.updated
                      /\ \E r \in has : r.id = out.resp.id
                /\ had # {} =>
                      /\ Cardinality(out.rows) = Cardinality(weights)
                      /\ Cardinality(has) = 1
                      /\ out.resp.updated /\ out.resp.id = 0

\* An upsert on an existing date was answered as an update of the only entry.
C3_Witness ==
    /\ resp.method = "POST" /\ resp.status = 200 /\ resp.updated /\ resp.success
    /\ Cardinality(weights) = 1

\* A finite number greater than zero.
FinitePositive(v) ==
    \/ v.kind = "int" /\ v.n > 0
    \/ v.kind = "frac" /\ v.n >= 0

\* C4: every persisted weight is a finite number greater than zero.
C4_WeightsFinitePositive ==
    \A r \in weights : FinitePositive(r.weight)

\* C5: a POST whose weight is not a finite number, or whose date is missing or
\* empty, is answered 400.  Stated for the bodies that are JSON objects whose
\* date is a string or absent.
C5_InvalidPostIs400 ==
    [][\A body \in PostBodies :
         (/\ body.json = "object"
          /\ body.date.kind \in {"string", "undefined"}
          /\ \/ body.weight.kind \notin {"int", "frac"}
             \/ body.date.kind = "undefined"
             \/ body.date.s = <<>>
          /\ POST(body))
         => resp'.status = 400]_vars

\* typeof v === 'number' && !isNaN(v)
ValidNumber(v) == TypeOf(v) = "number" /\ ~IsNaN(v)

\* The entries whose id is the number v.
EntriesWithId(rows, v) == {r \in rows : v.kind = "int" /\ r.id = v.n}

\* C6: a PUT with a numeric id and a numeric weight: exactly when no entry has
\* the id, updateWeight reports 0 changes, the answer is 404 and the table is
\* as it was; when an entry has it, updateWeight reports 1 change, the answer is
\* 200 and the table differs in that entry's weight only, also when the new
\* weight is the stored one.
C6_UpdateById ==
    \A body \in PutBodies :
        (body.json = "object" /\ ValidNumber(body.id) /\ ValidNumber(body.weight)) =>
            LET out == PUTHandler(weights, sqlite_sequence, body)
                changes == updateWeight(weights, body.id, body.weight).result.changes
                target == EntriesWithId(weights, body.id)
            IN  /\ out.seqno = sqlite_sequence
                /\ target = {} =>
                      changes = 0 /\ out.resp.status = 404 /\ out.rows = weights
                /\ target # {} =>
                      /\ changes = 1 /\ out.resp.status = 200 /\ out.resp.success
                      /\ out.rows = (weights \ target)
                                      \cup {[r EXCEPT !.weight = body.weight] : r \in target}

\* A PUT for an id no entry has was answered 404 while the table holds entries.
C6_Witness ==
    resp.method = "PUT" /\ resp.status = 404 /\ weights # {}

\* C7: a DELETE without the deleteAll flag and with a numeric id: if an entry
\* has the id, exactly that entry goes, deleteWeight reports 1 change and the
\* answer is 200; if none has it, the table is as it was, deleteWeight reports
\* 0 changes and the answer is 404.
C7_DeleteById ==
    \A body \in DeleteBodies :
        (body.json = "object" /\ ~StrictTrue(body.deleteAll) /\ ValidNumber(body.id)) =>
            LET out == DELETEHandler(weights, sqlite_sequence, body)
                changes == deleteWeight(weights, body.id).result.changes
                target == EntriesWithId(weights, body.id)
            IN  /\ out.seqno = sqlite_sequence
                /\ target = {} =>
                      changes = 0 /\ out.resp.status = 404 /\ out.rows = weights
                /\ target # {} =>
                      /\ changes = 1 /\ Cardinality(target) = 1
                      /\ out.resp.status = 200 /\ out.resp.success
                      /\ out.rows = weights \ target

\* A single delete was answered 200 and another entry is still there.
C7_Witness ==
    /\ resp.method = "DELETE" /\ resp.status = 200 /\ resp.deleted = -1
    /\ weights # {}

\* C8: a DELETE with deleteAll === true is answered 200 with the number of
\* entries there were (0 on an empty table, which stays as it is) and leaves
\* the table empty, so that the list is the empty array.
C8_DeleteAll ==
    \A body \in DeleteBodies :
        (body.json = "object" /\ StrictTrue(body.deleteAll)) =>
            LET out == DELETEHandler(weights, sqlite_sequence, body)
            IN  /\ out.resp.status = 200 /\ out.resp.success
                /\ out.resp.deleted = Cardinality(weights)
                /\ deleteAllWeights(weights).result.changes = Cardinality(weights)
                /\ out.rows = {}
                /\ GETHandler(out.rows, out.seqno).resp.list = <<>>
                /\ weights = {} => out.resp.deleted = 0 /\ out.rows = weights

\* A bulk clear reported the two entries it removed.
C8_Witness ==
    resp.method = "DELETE" /\ resp.status = 200 /\ resp.deleted = 2 /\ weights = {}

\* C9: the list GET answers with holds every persisted entry exactly once, in
\* strictly ascending order of date.
C9_ListAscending ==
    LET out == GETHandler(weights, sqlite_sequence)
        list == out.resp.list
    IN  /\ out.resp.status = 200 /\ out.rows = weights
        /\ Len(list) = Cardinality(weights)
        /\ {list[i] : i \in 1 .. Len(list)}
              = {[id |-> r.id, weight |-> r.weight, date |-> r.date] : r \in weights}
        /\ \A i \in 1 .. Len(list) : \A j \in 1 .. Len(list) :
              i < j => TextLess(list[i].date, list[j].date)
        /\ resp.method = "GET" => resp.list = list

\* A list of two entries whose earlier date was inserted later.
C9_Witness ==
    /\ resp.method = "GET" /\ Len(resp.list) = 2
    /\ resp.list[1].id > resp.list[2].id

\* C10: no step changes the id, date or created_at of an entry that stays; a
\* POST answered as an update and a PUT assign no id (the ids in the table are
\* those there were).
C10_IdentityFrame ==
    [][/\ \A r \in weights : \A q \in weights' :
            q.id = r.id => q.date = r.date /\ q.created_at = r.created_at
       /\ ((resp'.method = "POST" /\ resp'.updated) \/ resp'.method = "PUT")
            => {q.id : q \in weights'} = {r.id : r \in weights}]_vars

\* A second write for a date was answered as an update later than the entry's
\* insertion, and the entry keeps its created_at.
C10_Witness ==
    /\ resp.method = "POST" /\ resp.updated
    /\ \E r \in weights : r.created_at < clock

\* C11, as claimed: the answer to an upsert carries the id of the entry it
\* inserted or updated.
C11_ResultCarriesId ==
    \A body \in PostBodies :
        WellFormedPost(body) =>
            LET out == POSTHandler(weights, sqlite_sequence, clock, body)
            IN  /\ out.resp.id # 0
                /\ \A r \in RowsOn(out.rows, body.date.s) : r.id = out.resp.id

\* C11, amended: the result of addWeight and the answer carry the id of the new
\* entry when the date was fresh; when the date existed they carry updated and
\* no id, and the entry updated keeps the id it had.
C11_IdOnInsertOnly ==
    \A body \in PostBodies :
        WellFormedPost(body) =>
            LET out == POSTHandler(weights, sqlite_sequence, clock, body)
                result == addWeight(weights, sqlite_sequence, clock, body.weight, body.date).result
                had == RowsOn(weights, body.date.s)
                has == RowsOn(out.rows, body.date.s)
            IN  /\ out.resp.id = result.id /\ out.resp.updated = result.updated
                /\ had = {} =>
                      /\ ~result.updated
                      /\ result.id \notin {r.id : r \in weights}
                      /\ {r.id : r \in has} = {result.id}
                /\ had # {} =>
                      /\ result.updated /\ result.id = 0
                      /\ {r.id : r \in has} = {r.id : r \in had}

\* An upsert on an existing date was answered without an id while the entry it
\* updated has id 2.
C11_Witness ==
    /\ resp.method = "POST" /\ resp.status = 200 /\ resp.updated /\ resp.id = 0
    /\ \E r \in weights : r.id = 2
    /\ Cardinality(weights) = 1

----------------------------------------------------------------------------
\* The storage engine failing.  fault names the statement whose run() throws an
\* error that is not the UNIQUE conflict (SQLITE_IOERR: a full disk, a locked
\* file), if the function gets to run it; "none" is the engine working.  A
\* statement that throws leaves the table as it was.

Faults == {"none", "INSERT", "UPDATE", "SELECT", "DELETE"}

\* addWeight treating every error of the INSERT as the conflict.
addWeightSwallow(rows, seqno, now, weight, date, fault) ==
    LET ins == IF fault = "INSERT"
               THEN [threw |-> "SQLITE_IOERR", rows |-> rows, seqno |-> seqno, lastInsertRowid |-> 0]
               ELSE InsertRow(rows, seqno, now, weight, date)
        upd == UpdateByDate(rows, weight, date)
    IN  IF ins.threw = ""
        THEN [threw |-> "", rows |-> ins.rows, seqno |-> ins.seqno,
              result |-> [NoResult EXCEPT !.success = TRUE, !.id = ins.lastInsertRowid]]
        ELSE IF fault = "UPDATE"
        THEN [threw |-> "SQLITE_IOERR", rows |-> rows, seqno |-> seqno, result |-> NoResult]
        ELSE [threw |-> "", rows |-> upd.rows, seqno |-> seqno,
              result |-> [NoResult EXCEPT !.success = TRUE, !.updated = TRUE]]

\* db.js addWeight, lines 28-42: the INSERT in the try, the UPDATE in the catch
\* (what it throws leaves the function), throw error for any other code.
addWeightFaulty(rows, seqno, now, weight, date, fault) ==
    LET ins == IF fault = "INSERT"
               THEN [threw |-> "SQLITE_IOERR", rows |-> rows, seqno |-> seqno, lastInsertRowid |-> 0]
               ELSE InsertRow(rows, seqno, now, weight, date)
        upd == UpdateByDate(rows, weight, date)
    IN  IF ins.threw = ""
        THEN [threw |-> "", rows |-> ins.rows, seqno |-> ins.seqno,
              result |-> [NoResult EXCEPT !.success = TRUE, !.id = ins.lastInsertRowid]]
        ELSE IF ins.threw = "SQLITE_CONSTRAINT_UNIQUE"
        THEN IF fault = "UPDATE"
             THEN [threw |-> "SQLITE_IOERR", rows |-> rows, seqno |-> seqno, result |-> NoResult]
             ELSE [threw |-> "", rows |-> upd.rows, seqno |-> seqno,
                   result |-> [NoResult EXCEPT !.success = TRUE, !.updated = TRUE]]
        ELSE [threw |-> ins.threw, rows |-> rows, seqno |-> seqno, result |-> NoResult]

getAllWeightsFaulty(rows, fault) ==
    IF fault = "SELECT"
    THEN [threw |-> "SQLITE_IOERR", list |-> <<>>]
    ELSE [threw |-> "", list |-> getAllWeights(rows)]

updateWeightFaulty(rows, id, weight, fault) ==
    IF fault = "UPDATE"
    THEN [threw |-> "SQLITE_IOERR", rows |-> rows, result |-> NoResult]
    ELSE [threw |-> ""] @@ updateWeight(rows, id, weight)

deleteWeightFaulty(rows, id, fault) ==
    IF fault = "DELETE"
    THEN [threw |-> "SQLITE_IOERR", rows |-> rows, result |-> NoResult]
    ELSE [threw |-> ""] @@ deleteWeight(rows, id)

deleteAllWeightsFaulty(rows, fault) ==
    IF fault = "DELETE"
    THEN [threw |-> "SQLITE_IOERR", rows |-> rows, result |-> NoResult]
    ELSE [threw |-> ""] @@ deleteAllWeights(rows)

\* The handlers of +server.js with their catch blocks: what a db.js function
\* throws is answered 500.
GETHandlerFaulty(rows, seqno, fault) ==
    LET all == getAllWeightsFaulty(rows, fault)
    IN  IF all.threw # ""
        THEN Called("getAllWeights", Outcome(rows, seqno, Error("GET", 500, "Failed to fetch weights")))
        ELSE Called("getAllWeights", Outcome(rows, seqno, [Json("GET", 200) EXCEPT !.list = all.list]))

POSTHandlerFaulty(rows, seqno, now, body, fault) ==
    LET added == addWeightFaulty(rows, seqno, now, body.weight, body.date, fault)
    IN  IF body.json # "object"
        THEN Outcome(rows, seqno, Error("POST", 500, "Failed to add weight"))
        ELSE IF TypeOf(body.weight) # "number" \/ IsNaN(body.weight)
        THEN Outcome(rows, seqno, Error("POST", 400, "Weight must be a valid number"))
        ELSE IF Falsy(body.date)
        THEN Outcome(rows, seqno, Error("POST", 400, "Date is required"))
        ELSE IF added.threw # ""
        THEN Called("addWeight", Outcome(rows, seqno, Error("POST", 500, "Failed to add weight")))
        ELSE Called("addWeight",
                    Outcome(added.rows, added.seqno,
                            [Json("POST", 200) EXCEPT !.success = TRUE,
                                                      !.id = added.result.id,
                                                      !.updated = added.result.updated]))

PUTHandlerFaulty(rows, seqno, body, fault) ==
    LET updated == updateWeightFaulty(rows, body.id, body.weight, fault)
    IN  IF body.json # "object"
        THEN Outcome(rows, seqno, Error("PUT", 500, "Failed to update weight"))
        ELSE IF TypeOf(body.id) # "number" \/ IsNaN(body.id)
        THEN Outcome(rows, seqno, Error("PUT", 400, "ID must be a valid number"))
        ELSE IF TypeOf(body.weight) # "number" \/ IsNaN(body.weight)
        THEN Outcome(rows, seqno, Error("PUT", 400, "Weight must be a valid number"))
        ELSE IF updated.threw # ""
        THEN Called("updateWeight", Outcome(rows, seqno, Error("PUT", 500, "Failed to update weight")))
        ELSE IF updated.result.changes = 0
        THEN Called("updateWeight", Outcome(updated.rows, seqno, Error("PUT", 404, "Entry not found")))
        ELSE Called("updateWeight", Outcome(updated.rows, seqno, [Json("PUT", 200) EXCEPT !.success = TRUE]))

DELETEHandlerFaulty(rows, seqno, body, fault) ==
    LET all == deleteAllWeightsFaulty(rows, fault)
        one == deleteWeightFaulty(rows, body.id, fault)
    IN  IF body.json # "object"
        THEN Outcome(rows, seqno, Error("DELETE", 500, "Failed to delete weight"))
        ELSE IF StrictTrue(body.deleteAll)
        THEN IF all.threw # ""
             THEN Called("deleteAllWeights", Outcome(rows, seqno, Error("DELETE", 500, "Failed to delete weight")))
             ELSE Called("deleteAllWeights",
                         Outcome(all.rows, seqno,
                                 [Json("DELETE", 200) EXCEPT !.success = TRUE, !.deleted = all.result.changes]))
        ELSE IF TypeOf(body.id) # "number" \/ IsNaN(body.id)
        THEN Outcome(rows, seqno, Error("DELETE", 400, "ID must be a valid number"))
        ELSE IF one.threw # ""
        THEN Called("deleteWeight", Outcome(rows, seqno, Error("DELETE", 500, "Failed to delete weight")))
        ELSE IF one.result.changes = 0
        THEN Called("deleteWeight", Outcome(one.rows, seqno, Error("DELETE", 404, "Entry not found")))
        ELSE Called("deleteWeight", Outcome(one.rows, seqno, [Json("DELETE", 200) EXCEPT !.success = TRUE]))

\* The bodies with which a handler gets to its db.js call.
StoringPostBodies ==
    {b \in PostBodies : b.json = "object" /\ ValidNumber(b.weight) /\ ~Falsy(b.date)}

StoringPutBodies ==
    {b \in PutBodies : b.json = "object" /\ ValidNumber(b.id) /\ ValidNumber(b.weight)}

StoringDeleteBodies ==
    {b \in DeleteBodies : b.json = "object" /\ (StrictTrue(b.deleteAll) \/ ValidNumber(b.id))}

GETFaulty(fault) ==
    /\ Answer(GETHandlerFaulty(weights, sqlite_sequence, fault))
    /\ UNCHANGED <<clock, calls, order>>

POSTFaulty(body, fault) ==
    /\ WithinBounds(POSTHandlerFaulty(weights, sqlite_sequence, clock, body, fault))
    /\ Answer(POSTHandlerFaulty(weights, sqlite_sequence, clock, body, fault))
    /\ UNCHANGED <<clock, calls, order>>

PUTFaulty(body, fault) ==
    /\ Answer(PUTHandlerFaulty(weights, sqlite_sequence, body, fault))
    /\ UNCHANGED <<clock, calls, order>>

DELETEFaulty(body, fault) ==
    /\ Answer(DELETEHandlerFaulty(weights, sqlite_sequence, body, fault))
    /\ UNCHANGED <<clock, calls, order>>

NextFault ==
    \/ \E fault \in {"none", "SELECT"} : GETFaulty(fault)
    \/ \E body \in StoringPostBodies : \E fault \in {"none", "INSERT", "UPDATE"} : POSTFaulty(body, fault)
    \/ \E body \in StoringPutBodies : \E fault \in {"none", "UPDATE"} : PUTFaulty(body, fault)
    \/ \E body \in StoringDeleteBodies : \E fault \in {"none", "DELETE"} : DELETEFaulty(body, fault)
    \/ Tick

SpecFault == Init /\ [][NextFault]_vars

\* 500, and the table and the AUTOINCREMENT counter as they are.
Failed(out) ==
    out.resp.status = 500 /\ out.rows = weights /\ out.seqno = sqlite_sequence

\* C12: when a statement a db.js function runs fails with anything but the
\* UNIQUE conflict of the INSERT (the UPDATE that resolves the conflict
\* included), the function throws and the request is answered 500 with the
\* table as it was; with the engine working the handlers are those of Spec.
C12_EngineFailureIs500 ==
    /\ getAllWeightsFaulty(weights, "SELECT").threw # ""
    /\ Failed(GETHandlerFaulty(weights, sqlite_sequence, "SELECT"))
    /\ GETHandlerFaulty(weights, sqlite_sequence, "none") = GETHandler(weights, sqlite_sequence)
    /\ \A body \in StoringPostBodies :
          /\ addWeightFaulty(weights, sqlite_sequence, clock, body.weight, body.date, "INSERT").threw # ""
          /\ Failed(POSTHandlerFaulty(weights, sqlite_sequence, clock, body, "INSERT"))
          /\ (body.date.kind = "string" /\ RowsOn(weights, body.date.s) # {}) =>
                /\ addWeightFaulty(weights, sqlite_sequence, clock, body.weight, body.date, "UPDATE").threw # ""
                /\ Failed(POSTHandlerFaulty(weights, sqlite_sequence, clock, body, "UPDATE"))
          /\ POSTHandlerFaulty(weights, sqlite_sequence, clock, body, "none")
                = POSTHandler(weights, sqlite_sequence, clock, body)
    /\ \A body \in StoringPutBodies :
          /\ updateWeightFaulty(weights, body.id, body.weight, "UPDATE").threw # ""
          /\ Failed(PUTHandlerFaulty(weights, sqlite_sequence, body, "UPDATE"))
          /\ PUTHandlerFaulty(weights, sqlite_sequence, body, "none")
                = PUTHandler(weights, sqlite_sequence, body)
    /\ \A body \in StoringDeleteBodies :
          /\ StrictTrue(body.deleteAll) => deleteAllWeightsFaulty(weights, "DELETE").threw # ""
          /\ ~StrictTrue(body.deleteAll) => deleteWeightFaulty(weights, body.id, "DELETE").threw # ""
          /\ Failed(DELETEHandlerFaulty(weights, sqlite_sequence, body, "DELETE"))
          /\ DELETEHandlerFaulty(weights, sqlite_sequence, body, "none")
                = DELETEHandler(weights, sqlite_sequence, body)

\* The list was asked for with entries in the table and the SELECT failed.
C12_Witness ==
    resp.method = "GET" /\ resp.status = 500 /\ weights # {}

\* Answered 400: no db.js function was called and nothing changed.
Refused(out) ==
    out.resp.status = 400 =>
        out.db = <<>> /\ out.rows = weights /\ out.seqno = sqlite_sequence

\* C13: a POST, PUT or DELETE answered 400 called no db.js function and left
\* the table as it was; a handler that gets to storage calls exactly one db.js
\* function, and the table it leaves is the one that call left.
C13_ValidationPrecedesStorage ==
    /\ \A body \in PostBodies :
          LET out == POSTHandler(weights, sqlite_sequence, clock, body)
              call == addWeight(weights, sqlite_sequence, clock, body.weight, body.date)
          IN  /\ Refused(out)
              /\ out.db = IF body \in StoringPostBodies THEN <<"addWeight">> ELSE <<>>
              /\ body \notin StoringPostBodies => out.rows = weights
              /\ body \in StoringPostBodies => out.rows = call.rows /\ out.resp.status # 400
    /\ \A body \in PutBodies :
          LET out == PUTHandler(weights, sqlite_sequence, body)
              call == updateWeight(weights, body.id, body.weight)
          IN  /\ Refused(out)
              /\ out.db = IF body \in StoringPutBodies THEN <<"updateWeight">> ELSE <<>>
              /\ body \notin StoringPutBodies => out.rows = weights
              /\ body \in StoringPutBodies => out.rows = call.rows /\ out.resp.status # 400
    /\ \A body \in DeleteBodies :
          LET out == DELETEHandler(weights, sqlite_sequence, body)
              call == IF StrictTrue(body.deleteAll)
                      THEN deleteAllWeights(weights)
                      ELSE deleteWeight(weights, body.id)
          IN  /\ Refused(out)
              /\ out.db = IF body \notin StoringDeleteBodies THEN <<>>
                          ELSE IF StrictTrue(body.deleteAll) THEN <<"deleteAllWeights">>
                          ELSE <<"deleteWeight">>
              /\ body \notin StoringDeleteBodies => out.rows = weights
              /\ body \in StoringDeleteBodies => out.rows = call.rows /\ out.resp.status # 400

\* An update was refused with 400 while the table holds two entries.
C13_Witness ==
    resp.method = "PUT" /\ resp.status = 400 /\ Cardinality(weights) = 2

\* The ids of the entries.
Ids(rows) == {r.id : r \in rows}

\* C14: ids are unique and every insert gets an id greater than every id
\* assigned before.  sqlite_sequence never decreases and no entry's id exceeds
\* it, so it bounds every id assigned so far; a step's new entry has an id
\* greater than it (1 on a new store), and a POST answered as an update leaves
\* it alone.  Hence no id comes back after a single or a bulk delete.
C14_IdsIncrease ==
    [][/\ sqlite_sequence' >= sqlite_sequence
       /\ \A r \in weights' : r.id <= sqlite_sequence'
       /\ \A r \in weights' : \A q \in weights' : r.id = q.id => r = q
       /\ \A r \in weights' :
             r.id \notin Ids(weights) =>
                /\ r.id = sqlite_sequence + 1
                /\ sqlite_sequence' = r.id
                /\ resp'.id = r.id
       /\ (resp'.method = "POST" /\ resp'.updated) => sqlite_sequence' = sqlite_sequence]_vars

\* The second insert came after the first entry was deleted and got id 2.
C14_Witness ==
    /\ resp.method = "POST" /\ resp.status = 200 /\ resp.id = 2
    /\ Ids(weights) = {2}

\* C15: getLatestWeight returns the entry whose date is the greatest among the
\* persisted entries, and undefined when the table is empty.
C15_LatestIsMaxDate ==
    LET latest == getLatestWeight(weights)
    IN  /\ weights = {} => latest = Undefined
        /\ weights # {} =>
              /\ latest \in weights
              /\ \A r \in weights : r = latest \/ TextLess(r.date, latest.date)

\* Two entries, and the one with the later date was inserted first.
C15_Witness ==
    /\ Cardinality(weights) = 2
    /\ getLatestWeight(weights).id = 1

\* C16: a DELETE body whose deleteAll is the boolean true empties the table and
\* is answered 200 with the count, whatever its id; with any other deleteAll
\* (absent, false, a string, a number) the handler removes at most the one entry
\* whose id is the body's and reports no bulk count.
C16_DeleteAllPrecedence ==
    \A body \in DeleteBodies :
        body.json = "object" =>
            LET out == DELETEHandler(weights, sqlite_sequence, body)
                gone == weights \ out.rows
            IN  /\ out.rows \subseteq weights
                /\ body.deleteAll = True =>
                      /\ out.rows = {}
                      /\ out.resp.status = 200 /\ out.resp.deleted = Cardinality(weights)
                      /\ out.db = <<"deleteAllWeights">>
                /\ body.deleteAll # True =>
                      /\ Cardinality(gone) <= 1
                      /\ \A r \in gone : body.id = Num(r.id)
                      /\ out.resp.deleted = -1
                      /\ "deleteAllWeights" \notin {out.db[i] : i \in DOMAIN out.db}

\* A DELETE that was not a bulk clear was refused for its id and both entries
\* are still there.
C16_Witness ==
    resp.method = "DELETE" /\ resp.status = 400 /\ Cardinality(weights) = 2

====
